---------------------------- MODULE Spec2Model ----------------------------
(***************************************************************************)
(* Model of the market-reports service: the two intake endpoints           *)
(* (market_reports_app.generate_reports, which starts a background thread, *)
(* and market_reports_process.start_market_gap, which runs inline), the    *)
(* pipeline generate_market_reports and drive_utils.upload_to_drive, with  *)
(* the remote Drive account as shared state.                               *)
(*                                                                         *)
(* Every remote call (Drive list / create, chart GET, webhook POST) and    *)
(* every template / file operation either succeeds or raises; both         *)
(* outcomes are enumerated.  Requests are typed as the data model says     *)
(* (charts maps keys to URLs, files entries carry file_name and file_url). *)
(*                                                                         *)
(* Spec serves the requests one after the other, with every step of the    *)
(* pipeline; SpecRace interleaves concurrent callers of upload_to_drive on *)
(* the one Drive account, the only state runs share.                       *)
(***************************************************************************)
EXTENDS Integers, Sequences, FiniteSets

\* ---------------------------------------------------------------- bounds
\* Number of request slots (requests that can be in flight at once).
NumRuns == 2
\* Identifiers the Drive account hands out before every create call fails.
MaxIds == 4
\* Largest slide count the PPTX template may have.
MaxSlides == 6

Runs == 1 .. NumRuns
\* session_id values requests carry.
Sessions == {"s1"}

\* ------------------------------------------------------------- constants
\* Python's None where an id is expected: target folder, folder_id, the id
\* a view URL is built from (Drive ids are >= 1).
None == 0
\* A missing session_id.
NoSession == ""
\* Name of the folder that exists in the account before any run; it is the
\* name of no session.
SharedName == "shared"
\* Id of that folder, which callers may pass as folder_id.
SharedId == 1

\* payload["charts"] keys the pipeline or the specification mention.
HwPrimary == "hardware_tier_distribution"
HwLegacy == "hardware_insights_tier"
SwPrimary == "software_tier_distribution"
SwLegacy == "software_insights_tier"

\* The chart maps requests are drawn from (the set of keys with a URL).
ChartMaps == { {}, {HwPrimary}, {HwLegacy}, {HwLegacy, SwLegacy} }

\* next_action_webhook values: absent ("") or a caller URL.
NoHook == ""
CallerHook == "caller_webhook"
\* os.getenv("IT_STRATEGY_API_URL", "") + "/start_it_strategy"
DefaultHook == "default/start_it_strategy"

\* content_slide_map: the zero-based slide indices it configures.
content_slide_map == 1 .. 5

Artifacts == {"docx", "pptx"}
NoResult == [status |-> "none", file_1_url |-> None, file_2_url |-> None]
NoReq == [session |-> NoSession, folder |-> None, webhook |-> NoHook, charts |-> {}]
NoUrls == [a \in Artifacts |-> None]

VARIABLES
    driveReady,  \* drive_utils.drive_service is initialised
    folders,     \* Drive folders: records [id, name]
    files,       \* Drive files: records [id, parent, name]
    nextId,      \* next identifier Drive hands out
    entry,       \* per slot: "none", "generate" or "start_gap"
    resp,        \* per slot: HTTP response given to the request
    pc,          \* per slot: position inside generate_market_reports
    req,         \* per slot: the request payload
    art,         \* per slot: artifact the current upload_to_drive call handles
    target,      \* per slot: target_folder of the current upload_to_drive call
    url,         \* per slot: docx_url / pptx_url
    rendered,    \* per slot: artifacts saved to the working directory
    slides,      \* per slot: len(pres.slides)
    replaced,    \* per slot: slide indices whose placeholders were replaced
    fetched,     \* per slot: chart roles downloaded by download_chart
    placed,      \* per slot: chart roles put on a slide by add_picture
    abortCause,  \* per slot: what raised into the outer except, or "none"
    result,      \* per slot: value generate_market_reports returned / built
    notes        \* per slot: sequence of webhook POSTs, [to, ok]

drive == <<driveReady, folders, files, nextId>>
locals == <<art, target, url, rendered, slides, replaced, fetched, placed,
            abortCause, result, notes>>
vars == <<driveReady, folders, files, nextId, entry, resp, pc, req, art,
          target, url, rendered, slides, replaced, fetched, placed,
          abortCause, result, notes>>

Init ==
    /\ driveReady \in BOOLEAN
    /\ folders = {[id |-> SharedId, name |-> SharedName]}
    /\ files = {}
    /\ nextId = SharedId + 1
    /\ entry = [r \in Runs |-> "none"]
    /\ resp = [r \in Runs |-> "none"]
    /\ pc = [r \in Runs |-> "idle"]
    /\ req = [r \in Runs |-> NoReq]
    /\ art = [r \in Runs |-> "docx"]
    /\ target = [r \in Runs |-> None]
    /\ url = [r \in Runs |-> NoUrls]
    /\ rendered = [r \in Runs |-> {}]
    /\ slides = [r \in Runs |-> 0]
    /\ replaced = [r \in Runs |-> {}]
    /\ fetched = [r \in Runs |-> {}]
    /\ placed = [r \in Runs |-> {}]
    /\ abortCause = [r \in Runs |-> "none"]
    /\ result = [r \in Runs |-> NoResult]
    /\ notes = [r \in Runs |-> << >>]

\* ------------------------------------------------------------ intake

\* folder_id values a caller passes: absent, or the id of the shared folder.
FolderArgs == {None, SharedId}

\* generate_reports: validate, then start the runner thread.
ReceiveGenerate(r) ==
    /\ entry[r] = "none"
    /\ \E sid \in Sessions \cup {NoSession}, hasContent \in BOOLEAN,
          charts \in ChartMaps, fid \in FolderArgs,
          hook \in {NoHook, CallerHook} :
          /\ entry' = [entry EXCEPT ![r] = "generate"]
          /\ IF sid = NoSession \/ ~hasContent \/ charts = {}
             THEN /\ resp' = [resp EXCEPT ![r] = "400"]
                  /\ UNCHANGED <<pc, req>>
             ELSE /\ req' = [req EXCEPT ![r] =
                        [session |-> sid, folder |-> fid, webhook |-> hook,
                         charts |-> charts]]
                  /\ pc' = [pc EXCEPT ![r] = "docx"]
                  /\ UNCHANGED resp
    /\ UNCHANGED <<drive, locals>>

\* Variant: the handler joins the runner thread before it answers.
AckAfterRun(r) ==
    /\ entry[r] = "generate"
    /\ resp[r] = "none"
    /\ pc[r] = "returned"
    /\ resp' = [resp EXCEPT ![r] = "ack"]
    /\ UNCHANGED <<drive, locals, entry, pc, req>>

\* generate_reports: the acknowledgment, returned once the thread is started.
Ack(r) ==
    /\ entry[r] = "generate"
    /\ resp[r] = "none"
    /\ pc[r] # "idle"
    /\ resp' = [resp EXCEPT ![r] = "ack"]
    /\ UNCHANGED <<drive, locals, entry, pc, req>>

\* start_market_gap: validate session_id, then call the pipeline inline.
ReceiveStartGap(r) ==
    /\ entry[r] = "none"
    /\ \E sid \in Sessions \cup {NoSession}, charts \in ChartMaps,
          fid \in FolderArgs, hook \in {NoHook, CallerHook} :
          /\ entry' = [entry EXCEPT ![r] = "start_gap"]
          /\ IF sid = NoSession
             THEN /\ resp' = [resp EXCEPT ![r] = "400"]
                  /\ UNCHANGED <<pc, req>>
             ELSE /\ req' = [req EXCEPT ![r] =
                        [session |-> sid, folder |-> fid, webhook |-> hook,
                         charts |-> charts]]
                  /\ pc' = [pc EXCEPT ![r] = "docx"]
                  /\ UNCHANGED resp
    /\ UNCHANGED <<drive, locals>>

\* ------------------------------------------------- generate_market_reports

\* The outer except: log, return None.
Abort(r, cause) ==
    /\ pc' = [pc EXCEPT ![r] = "returned"]
    /\ abortCause' = [abortCause EXCEPT ![r] = cause]
    /\ result' = [result EXCEPT ![r] = NoResult]

\* Step 1: render the DOCX template and save it.
RenderDocx(r) ==
    /\ pc[r] = "docx"
    /\ \/ /\ rendered' = [rendered EXCEPT ![r] = @ \cup {"docx"}]
          /\ art' = [art EXCEPT ![r] = "docx"]
          /\ pc' = [pc EXCEPT ![r] = "resolve"]
          /\ UNCHANGED <<abortCause, result>>
       \/ /\ Abort(r, "docx_render")
          /\ UNCHANGED <<rendered, art>>
    /\ UNCHANGED <<drive, entry, resp, req, target, url, slides, replaced,
                   fetched, placed, notes>>

\* ---------------------------------------------------------- upload_to_drive

\* upload_to_drive returns u to generate_market_reports, which stores it in
\* docx_url (then loads the deck) or pptx_url (then builds the result).
UploadReturn(r, u) ==
    /\ url' = [url EXCEPT ![r][art[r]] = u]
    /\ target' = [target EXCEPT ![r] = None]
    /\ pc' = [pc EXCEPT ![r] = IF art[r] = "docx" THEN "load" ELSE "notify"]

\* Variant: folder_id is ignored, the folder is always looked up by name.
ResolveIgnoresFolder(r) ==
    /\ pc[r] = "resolve"
    /\ IF ~driveReady
       THEN UploadReturn(r, None)
       ELSE /\ pc' = [pc EXCEPT ![r] = "search"]
            /\ UNCHANGED <<target, url>>
    /\ UNCHANGED <<drive, entry, resp, req, art, rendered, slides, replaced,
                   fetched, placed, abortCause, result, notes>>

\* Entry of upload_to_drive: the client check and the folder_id branch.
UploadResolve(r) ==
    /\ pc[r] = "resolve"
    /\ IF ~driveReady
       THEN UploadReturn(r, None)
       ELSE IF req[r].folder # None
       THEN /\ target' = [target EXCEPT ![r] = req[r].folder]
            /\ pc' = [pc EXCEPT ![r] = "upload"]
            /\ UNCHANGED url
       ELSE /\ pc' = [pc EXCEPT ![r] = "search"]
            /\ UNCHANGED <<target, url>>
    /\ UNCHANGED <<drive, entry, resp, req, art, rendered, slides, replaced,
                   fetched, placed, abortCause, result, notes>>

\* Variant: the list query matches nothing.
MatchesNothing(r) == {}

\* Folders the list query name='<session_id>' matches.
Matches(r) == {f \in folders : f.name = req[r].session}

\* Variant: an exception of the list call reaches generate_market_reports.
SearchRaises(r) ==
    /\ pc[r] = "search"
    /\ \/ /\ Abort(r, "drive_list")
          /\ UNCHANGED <<target, url>>
       \/ /\ Matches(r) # {}
          /\ \E f \in Matches(r) : target' = [target EXCEPT ![r] = f.id]
          /\ pc' = [pc EXCEPT ![r] = "upload"]
          /\ UNCHANGED <<url, abortCause, result>>
       \/ /\ Matches(r) = {}
          /\ pc' = [pc EXCEPT ![r] = "create"]
          /\ UNCHANGED <<target, url, abortCause, result>>
    /\ UNCHANGED <<drive, entry, resp, req, art, rendered, slides, replaced,
                   fetched, placed, notes>>

\* files().list(...): raises, or returns the matches; files[0] is whichever
\* match Drive lists first.
Search(r) ==
    /\ pc[r] = "search"
    /\ \/ UploadReturn(r, None)
       \/ /\ Matches(r) # {}
          /\ \E f \in Matches(r) : target' = [target EXCEPT ![r] = f.id]
          /\ pc' = [pc EXCEPT ![r] = "upload"]
          /\ UNCHANGED url
       \/ /\ Matches(r) = {}
          /\ pc' = [pc EXCEPT ![r] = "create"]
          /\ UNCHANGED <<target, url>>
    /\ UNCHANGED <<drive, entry, resp, req, art, rendered, slides, replaced,
                   fetched, placed, abortCause, result, notes>>

\* files().create(body=folder_meta): raises, or creates the session folder.
CreateFolder(r) ==
    /\ pc[r] = "create"
    /\ \/ /\ UploadReturn(r, None)
          /\ UNCHANGED <<folders, nextId>>
       \/ /\ nextId <= MaxIds
          /\ folders' = folders \cup {[id |-> nextId, name |-> req[r].session]}
          /\ nextId' = nextId + 1
          /\ target' = [target EXCEPT ![r] = nextId]
          /\ pc' = [pc EXCEPT ![r] = "upload"]
          /\ UNCHANGED url
    /\ UNCHANGED <<driveReady, files, entry, resp, req, art, rendered, slides,
                   replaced, fetched, placed, abortCause, result, notes>>

\* Variant: an exception of the upload reaches generate_market_reports.
UploadFileRaises(r) ==
    /\ pc[r] = "upload"
    /\ \/ /\ Abort(r, "drive_upload")
          /\ UNCHANGED <<files, nextId, url, target>>
       \/ /\ nextId <= MaxIds
          /\ files' = files \cup
                {[id |-> nextId, parent |-> target[r],
                  name |-> <<art[r], req[r].session>>]}
          /\ nextId' = nextId + 1
          /\ UploadReturn(r, nextId)
          /\ UNCHANGED <<abortCause, result>>
    /\ UNCHANGED <<driveReady, folders, entry, resp, req, art, rendered,
                   slides, replaced, fetched, placed, notes>>

\* files().create(body=file_metadata, media_body=media): raises, or stores the
\* file under target_folder and returns the view URL built from its id.
UploadFile(r) ==
    /\ pc[r] = "upload"
    /\ \/ /\ UploadReturn(r, None)
          /\ UNCHANGED <<files, nextId>>
       \/ /\ nextId <= MaxIds
          /\ files' = files \cup
                {[id |-> nextId, parent |-> target[r],
                  name |-> <<art[r], req[r].session>>]}
          /\ nextId' = nextId + 1
          /\ UploadReturn(r, nextId)
    /\ UNCHANGED <<driveReady, folders, entry, resp, req, art, rendered,
                   slides, replaced, fetched, placed, abortCause, result,
                   notes>>

\* ------------------------------------------------------ slide deck (step 2)

\* Presentation(PPTX_TEMPLATE): raises, or loads a deck of some slide count.
LoadDeck(r) ==
    /\ pc[r] = "load"
    /\ \/ /\ \E n \in 0 .. MaxSlides : slides' = [slides EXCEPT ![r] = n]
          /\ pc' = [pc EXCEPT ![r] = "replace"]
          /\ UNCHANGED <<abortCause, result>>
       \/ /\ Abort(r, "pptx_load")
          /\ UNCHANGED slides
    /\ UNCHANGED <<drive, entry, resp, req, art, target, url, rendered,
                   replaced, fetched, placed, notes>>

\* Indices of content_slide_map the deck does not have.
OutOfRange(n) == {idx \in content_slide_map : idx >= n}

Lowest(S) == CHOOSE x \in S : \A y \in S : x <= y

\* The loop over content_slide_map: pres.slides[idx] raises IndexError at
\* the first index the deck does not have.
ReplacePlaceholders(r) ==
    /\ pc[r] = "replace"
    /\ IF OutOfRange(slides[r]) # {}
       THEN /\ replaced' = [replaced EXCEPT ![r] =
                 {idx \in content_slide_map :
                     idx < Lowest(OutOfRange(slides[r]))}]
            /\ Abort(r, "slide_index")
       ELSE /\ replaced' = [replaced EXCEPT ![r] = content_slide_map]
            /\ pc' = [pc EXCEPT ![r] = "place"]
            /\ UNCHANGED <<abortCause, result>>
    /\ UNCHANGED <<drive, entry, resp, req, art, target, url, rendered,
                   slides, fetched, placed, notes>>

\* place_charts(pres, charts): on a slide whose text holds the heading, the
\* chart URL is handed to add_picture as a file path, which raises.  Which
\* headings the template holds is a property of the template file.
PlaceCharts(r) ==
    /\ pc[r] = "place"
    /\ \E hwHeading \in BOOLEAN, swHeading \in BOOLEAN :
          IF \/ hwHeading /\ HwLegacy \in req[r].charts
             \/ swHeading /\ SwLegacy \in req[r].charts
          THEN Abort(r, "place_charts")
          ELSE /\ pc' = [pc EXCEPT ![r] = "hw"]
               /\ UNCHANGED <<abortCause, result>>
    /\ UNCHANGED <<drive, entry, resp, req, art, target, url, rendered,
                   slides, replaced, fetched, placed, notes>>

\* charts.get(...) of the key the code reads for a role on the cover slide.
ChartUrlKey(role) == IF role = "hw" THEN HwLegacy ELSE SwLegacy

\* One cover-slide chart: download_chart (raises on a failed GET), then
\* add_picture on slide 0 (raises when the bytes are no image).
CoverChart(r, role, nextPc) ==
    /\ pc[r] = role
    /\ IF slides[r] > 0 /\ ChartUrlKey(role) \in req[r].charts
       THEN \/ /\ fetched' = [fetched EXCEPT ![r] = @ \cup {role}]
               /\ placed' = [placed EXCEPT ![r] = @ \cup {role}]
               /\ pc' = [pc EXCEPT ![r] = nextPc]
               /\ UNCHANGED <<abortCause, result>>
            \/ /\ Abort(r, "chart_fetch")
               /\ UNCHANGED <<fetched, placed>>
            \/ /\ fetched' = [fetched EXCEPT ![r] = @ \cup {role}]
               /\ Abort(r, "add_picture")
               /\ UNCHANGED placed
       ELSE /\ pc' = [pc EXCEPT ![r] = nextPc]
            /\ UNCHANGED <<fetched, placed, abortCause, result>>
    /\ UNCHANGED <<drive, entry, resp, req, art, target, url, rendered,
                   slides, replaced, notes>>

ChartHw(r) == CoverChart(r, "hw", "sw")

ChartSw(r) == CoverChart(r, "sw", "save")

\* pres.save(pptx_path), then the second upload_to_drive call.
SaveDeck(r) ==
    /\ pc[r] = "save"
    /\ \/ /\ rendered' = [rendered EXCEPT ![r] = @ \cup {"pptx"}]
          /\ art' = [art EXCEPT ![r] = "pptx"]
          /\ pc' = [pc EXCEPT ![r] = "resolve"]
          /\ UNCHANGED <<abortCause, result>>
       \/ /\ Abort(r, "pptx_save")
          /\ UNCHANGED <<rendered, art>>
    /\ UNCHANGED <<drive, entry, resp, req, target, url, slides, replaced,
                   fetched, placed, notes>>

\* ------------------------------------------------- result and notification

\* payload.get("next_action_webhook") or <default>: always a non-empty URL.
NextWebhook(r) ==
    IF req[r].webhook # NoHook THEN req[r].webhook ELSE DefaultHook

\* Steps 3 and 4: build the result, POST it once (an exception of the POST
\* is swallowed), return it.
Notify(r) ==
    /\ pc[r] = "notify"
    /\ result' = [result EXCEPT ![r] =
          [status |-> "complete", file_1_url |-> url[r]["docx"],
           file_2_url |-> url[r]["pptx"]]]
    /\ \E ok \in BOOLEAN :
          notes' = [notes EXCEPT ![r] =
                       Append(@, [to |-> NextWebhook(r), ok |-> ok])]
    /\ pc' = [pc EXCEPT ![r] = "returned"]
    /\ UNCHANGED <<drive, entry, resp, req, art, target, url, rendered,
                   slides, replaced, fetched, placed, abortCause>>

\* start_market_gap after the pipeline returned: the optional callback when
\* the request names a webhook and the result is not None, then the response
\* carrying the result.
GapRespond(r) ==
    /\ entry[r] = "start_gap"
    /\ pc[r] = "returned"
    /\ resp[r] = "none"
    /\ IF req[r].webhook # NoHook /\ result[r].status = "complete"
       THEN \E ok \in BOOLEAN :
               notes' = [notes EXCEPT ![r] =
                            Append(@, [to |-> req[r].webhook, ok |-> ok])]
       ELSE UNCHANGED notes
    /\ resp' = [resp EXCEPT ![r] =
                  IF result[r].status = "complete" THEN "result" ELSE "null"]
    /\ UNCHANGED <<drive, entry, pc, req, art, target, url, rendered, slides,
                   replaced, fetched, placed, abortCause, result>>

\* The request is answered and its pipeline call (if any) has returned: the
\* handler frame and the runner thread are gone, the slot is free again.
Finish(r) ==
    /\ resp[r] # "none"
    /\ pc[r] \in {"idle", "returned"}
    /\ entry' = [entry EXCEPT ![r] = "none"]
    /\ resp' = [resp EXCEPT ![r] = "none"]
    /\ pc' = [pc EXCEPT ![r] = "idle"]
    /\ req' = [req EXCEPT ![r] = NoReq]
    /\ art' = [art EXCEPT ![r] = "docx"]
    /\ target' = [target EXCEPT ![r] = None]
    /\ url' = [url EXCEPT ![r] = NoUrls]
    /\ rendered' = [rendered EXCEPT ![r] = {}]
    /\ slides' = [slides EXCEPT ![r] = 0]
    /\ replaced' = [replaced EXCEPT ![r] = {}]
    /\ fetched' = [fetched EXCEPT ![r] = {}]
    /\ placed' = [placed EXCEPT ![r] = {}]
    /\ abortCause' = [abortCause EXCEPT ![r] = "none"]
    /\ result' = [result EXCEPT ![r] = NoResult]
    /\ notes' = [notes EXCEPT ![r] = << >>]
    /\ UNCHANGED drive

\* ------------------------------------------------------------ specifications

\* No other request is in flight.
Alone(r) == \A o \in Runs \ {r} : entry[o] = "none"

AdmitGenerate(r) == Alone(r) /\ ReceiveGenerate(r)

AdmitStartGap(r) == Alone(r) /\ ReceiveStartGap(r)

\* Requests arrive one after the other: each is received only after the
\* previous one's run has ended.  Inside a request the handler and the runner
\* thread interleave.  Runs share nothing but the Drive account, whose every
\* call may fail or succeed here; callers racing on it are SpecRace's.
Next ==
    \E r \in Runs :
        \/ AdmitGenerate(r)
        \/ AdmitStartGap(r)
        \/ Ack(r)
        \/ RenderDocx(r)
        \/ UploadResolve(r)
        \/ Search(r)
        \/ CreateFolder(r)
        \/ UploadFile(r)
        \/ LoadDeck(r)
        \/ ReplacePlaceholders(r)
        \/ PlaceCharts(r)
        \/ ChartHw(r)
        \/ ChartSw(r)
        \/ SaveDeck(r)
        \/ Notify(r)
        \/ GapRespond(r)
        \/ Finish(r)

Spec == Init /\ [][Next]_vars

\* A runner thread started by generate_reports reaches one of the two
\* upload_to_drive calls of generate_market_reports (the artifact it uploads
\* is saved; the steps before touch nothing but the run's own files).
RaceCall(r) ==
    /\ entry[r] = "none"
    /\ \E sid \in Sessions, fid \in FolderArgs, a \in Artifacts :
          /\ req' = [req EXCEPT ![r] =
                [session |-> sid, folder |-> fid, webhook |-> NoHook,
                 charts |-> {HwPrimary}]]
          /\ art' = [art EXCEPT ![r] = a]
          /\ rendered' = [rendered EXCEPT ![r] =
                IF a = "docx" THEN {"docx"} ELSE Artifacts]
    /\ entry' = [entry EXCEPT ![r] = "generate"]
    /\ resp' = [resp EXCEPT ![r] = "ack"]
    /\ pc' = [pc EXCEPT ![r] = "resolve"]
    /\ UNCHANGED <<drive, target, url, slides, replaced, fetched, placed,
                   abortCause, result, notes>>

\* The call returned; what the run does next touches no Drive state.
RaceReturn(r) ==
    /\ pc[r] \in {"load", "notify"}
    /\ entry' = [entry EXCEPT ![r] = "none"]
    /\ resp' = [resp EXCEPT ![r] = "none"]
    /\ pc' = [pc EXCEPT ![r] = "idle"]
    /\ req' = [req EXCEPT ![r] = NoReq]
    /\ art' = [art EXCEPT ![r] = "docx"]
    /\ url' = [url EXCEPT ![r] = NoUrls]
    /\ rendered' = [rendered EXCEPT ![r] = {}]
    /\ UNCHANGED <<drive, target, slides, replaced, fetched, placed,
                   abortCause, result, notes>>

\* Concurrent callers of upload_to_drive on one Drive account.
NextRace ==
    \E r \in Runs :
        \/ RaceCall(r)
        \/ UploadResolve(r)
        \/ Search(r)
        \/ CreateFolder(r)
        \/ UploadFile(r)
        \/ RaceReturn(r)

SpecRace == Init /\ [][NextRace]_vars

\* ------------------------------------------------------------------ claims

\* Positions inside an upload_to_drive call.
UploadPcs == {"resolve", "search", "create", "upload"}

\* Positions of a run that has been started and has not returned.
InProgress ==
    {"docx", "load", "replace", "place", "hw", "sw", "save", "notify"}
        \cup UploadPcs

\* Positions after the cover-slide charts have been handled.
AfterCharts == {"save", "notify"}

\* The Drive file a view URL built from id u points at.
FilesAt(u) == {f \in files : f.id = u}

C2_ChartFetchDegrading ==
    \A r \in Runs : abortCause[r] # "chart_fetch"

\* C3: nothing is uploaded before both artifacts are rendered, and a run that
\* returns no result has published nothing.
C3_RenderBeforePublish ==
    \A r \in Runs :
        /\ (\E a \in Artifacts : url[r][a] # None) => rendered[r] = Artifacts
        /\ (pc[r] = "returned" /\ result[r].status = "none") =>
              \A a \in Artifacts : url[r][a] = None

\* C4: a run that builds a result sends exactly one notification, to the
\* request's webhook if it has one and to the default URL otherwise, and no
\* run sends more than one.
C4_ExactlyOneNotification ==
    \A r \in Runs :
        /\ Len(notes[r]) <= 1
        /\ result[r].status = "complete" =>
              /\ Len(notes[r]) = 1
              /\ notes[r][1].to = NextWebhook(r)

\* Ids of the folders named after session s.
SessionFolders(s) == {f.id : f \in {g \in folders : g.name = s}}

\* C5: with calls to upload_to_drive one after the other, at most one folder
\* per session_id is ever created, every file uploaded without a folder id
\* lies in it, and the two files of one run have the same parent.
C5_SequentialFolderIdempotent ==
    /\ \A s \in Sessions : Cardinality(SessionFolders(s)) <= 1
    /\ \A f \in files :
          f.parent # SharedId => f.parent \in SessionFolders(f.name[2])
    /\ \A r \in Runs :
          (/\ req[r].folder = None
           /\ url[r]["docx"] # None
           /\ url[r]["pptx"] # None) =>
              \A f \in FilesAt(url[r]["docx"]), g \in FilesAt(url[r]["pptx"]) :
                  f.parent = g.parent /\ f.parent \in SessionFolders(req[r].session)

\* C5 witness: a rerun found the folder of the earlier run: the session
\* folder holds two files of the same name.
C5_Witness ==
    \E f \in files, g \in files :
        /\ f.id # g.id
        /\ f.name = g.name
        /\ f.parent = g.parent
        /\ f.parent \in SessionFolders(f.name[2])

\* C6: a caller that passes a folder id never searches for or creates a
\* folder, uploads into exactly that folder, and its file lies there, under
\* every interleaving of the callers.  (That callers without a folder id can
\* end with two folders of one name is C6_Witness.)
C6_ExplicitFolderUsed ==
    \A r \in Runs :
        req[r].folder # None =>
            /\ pc[r] \notin {"search", "create"}
            /\ pc[r] = "upload" => target[r] = req[r].folder
            /\ \A a \in Artifacts :
                  url[r][a] # None =>
                      \A f \in FilesAt(url[r][a]) : f.parent = req[r].folder

\* C6 witness: two callers without a folder id both passed the search before
\* either created the folder and now hold two different folders of the same
\* name, while a file uploaded with an explicit folder id lies in the shared
\* folder.
C6_Witness ==
    /\ \E r1 \in Runs, r2 \in Runs :
          /\ r1 # r2
          /\ pc[r1] = "upload" /\ pc[r2] = "upload"
          /\ req[r1].folder = None /\ req[r2].folder = None
          /\ req[r1].session = req[r2].session
          /\ target[r1] # target[r2]
          /\ {target[r1], target[r2]} \subseteq SessionFolders(req[r1].session)
    /\ \E f \in files : f.parent = SharedId

\* One step of a run inside upload_to_drive leads to another position of the
\* call or to the statement after the call.
C7_CallReturns ==
    \A r \in Runs :
        pc[r] \in UploadPcs =>
            pc'[r] \in UploadPcs \cup
                {IF art[r] = "docx" THEN "load" ELSE "notify"}

\* C7: upload_to_drive never raises into its caller (every step of the call
\* stays in the call or returns to the next statement), gives None when the
\* client is not initialised, and gives a URL only for a file it uploaded.
C7_UploadNeverRaises ==
    /\ [][C7_CallReturns]_vars
    /\ [](\A r \in Runs : \A a \in Artifacts :
            /\ ~driveReady => url[r][a] = None
            /\ url[r][a] # None =>
                  \E f \in files :
                      f.id = url[r][a] /\ f.name = <<a, req[r].session>>)

\* C7 witness: the client is ready, the first call returned a URL and the
\* second call, having failed, returned None to a run that goes on.
C7_Witness ==
    \E r \in Runs :
        /\ driveReady
        /\ pc[r] = "notify"
        /\ url[r]["docx"] # None
        /\ url[r]["pptx"] = None

\* C8: a configured slide index beyond the deck is skipped: it does not
\* abort the run, and the other configured substitutions are applied.
C8_MissingSlideSkipped ==
    \A r \in Runs :
        /\ abortCause[r] # "slide_index"
        /\ pc[r] \in {"place", "hw", "sw"} \cup AfterCharts =>
              replaced[r] = content_slide_map \ OutOfRange(slides[r])

SpecResolved(charts) ==
    {role \in {"hw", "sw"} :
        IF role = "hw"
        THEN HwPrimary \in charts \/ HwLegacy \in charts
        ELSE SwPrimary \in charts \/ SwLegacy \in charts}

\* C10: once the charts are handled, exactly the roles with a primary or a
\* legacy key are placed, and every placed image was fetched before.
C10_PrimaryThenLegacy ==
    \A r \in Runs :
        /\ placed[r] \subseteq fetched[r]
        /\ pc[r] \in AfterCharts => placed[r] = SpecResolved(req[r].charts)

====
